---------------------------- MODULE Spec2Model ----------------------------
(***************************************************************************)
(* Driver registry, proximity matching and order negotiation of            *)
(* telegram_delivery_bot.py.                                               *)
(*                                                                         *)
(* The three worksheets (Users, Drivers, Orders) are sequences of rows in  *)
(* sheet order.  Every handler is one action: python-telegram-bot awaits   *)
(* each update's handler before it takes the next update and the gspread   *)
(* calls are blocking, so the sheet reads and writes of one handler are    *)
(* never interleaved with those of another.  A handler's inputs are the    *)
(* sender of the update and the fields of the callback data or message,    *)
(* which the handlers take as they come.                                   *)
(***************************************************************************)
EXTENDS Integers, Sequences, FiniteSets, TLC

\* ------------------------------------------------------------------ bounds
MaxNow == 1          \* seconds the clock may advance in the negotiation runs
MaxOrders == 2       \* rows the Orders sheet may hold
MaxTicks == 3        \* coarse clock steps in the registry runs

\* --------------------------------------------------------------- constants
INACTIVE_THRESHOLD == 10
MAX_DISPLAY_DRIVERS == 10
CURRENCY == "SAR"
NO_DISTANCE_KEY == 99999

\* The clock counts seconds.  TickStep is the step of the coarse clock of
\* the registry runs: five minutes, so that a driver can be exactly at the
\* staleness boundary (two steps) and beyond it (three steps).
TickStep == 5 * 60

\* ------------------------------------------------------------ input domains
Chats == {1, 2, 3, 4}         \* Telegram user ids
Clients == {1}                \* the chats that press request buttons
Responders == {2, 3}          \* the chats that answer requests
PriceTexts == {"25"}          \* the price field of a request button
ReplyTexts == {"30", "abc"}   \* texts a driver may send as a counter price
AskedPrices == {"25", "30"}   \* prices of the requests in the price runs
CounterTexts == {"25", "30", "abc"}   \* replies to the price prompt there
Infos == {[nationality |-> "Saudi", vehicle_type |-> "Car", gender |-> "m"]}

\* An empty sheet cell ('').  Cells that hold text built by the program are
\* tuples of its parts, so the empty cell is the empty tuple.
Empty == <<>>

VARIABLES
    users,      \* Users sheet: rows [user_id, role]
    drivers,    \* Drivers sheet: rows in sheet order
    orders,     \* Orders sheet: rows in sheet order
    requested,  \* per Orders row, the driver chat the request was sent for
    appData,    \* context.application.user_data: chat -> pending mapping
    now,        \* time.time() / datetime.utcnow(), in seconds
    found,      \* what the candidate search of the last handler read and
                \* returned; NoQuery when the last handler did not search
    undelivered, \* the message whose send_message raised in the last
                \* handler, which the handler's except clause logs
    running,    \* the handlers that have begun and not returned, with what
                \* they have read and how far they are; the handlers whose
                \* sheet calls the model does not split are not in it
    userData    \* context.user_data: chat -> what the client conversation
                \* left there (client_price, awaiting_price)

vars ==
    <<users, drivers, orders, requested, appData, now, found, undelivered,
      running, userData>>

\* ------------------------------------------------------------------ helpers
Min(a, b) == IF a <= b THEN a ELSE b

\* Index of the first row whose column `key` equals val, 0 when none does:
\* the `for i, r in enumerate(recs)` scans that stop at the first match.
FirstRow(recs, key, val) ==
    LET S == {i \in 1..Len(recs) : recs[i][key] = val}
    IN  IF S = {} THEN 0 ELSE CHOOSE i \in S : \A j \in S : i <= j

\* f"{value} {CURRENCY}"
WithCurrency(value) == <<value, CURRENCY>>

\* f"O{int(time.time())}"
new_order_id(t) == <<"O", t>>

\* f"D{int(time.time())}" of register_driver
new_driver_id(t) == <<"D", t>>

\* f"D{driver_chat_id}" of the accept handlers
DriverIdOfChat(chat) == <<"D", chat>>

\* variant: no text is refused
IsNumeric_any_text(txt) == TRUE

\* float(txt) succeeds
IsNumeric(txt) == txt \in {"25", "30"}

\* str(float(txt))
FloatStr(txt) ==
    CASE txt = "25" -> "25.0"
      [] txt = "30" -> "30.0"
      [] OTHER -> txt

\* float(txt), for the texts float() accepts and the strings str(float) gives
FloatOf(txt) ==
    CASE txt \in {"25", "25.0"} -> 25
      [] txt \in {"30", "30.0"} -> 30

NoData == [kind |-> "none"]

NoQuery == [ran |-> FALSE]

\* user_data of a chat that has typed no price: .get("client_price") is
\* None, which an f-string prints as "None"; awaiting_price is not set and
\* no search location is kept
NoPrice == "None"
NoUserData ==
    [client_price |-> NoPrice, awaiting_price |-> FALSE,
     client_search_loc |-> Empty]

\* no handler has begun and not returned
Idle == [op |-> "idle"]
NoTasks == [h \in {"query", "report"} |-> Idle]

\* A message of context.bot.send_message: the chat it goes to, what it says
\* and what its buttons carry (order id, the other party's chat, price).
Message(kind, to, order_id, peer, price) ==
    [kind |-> kind, to |-> to, order_id |-> order_id, peer |-> peer,
     price |-> price]

\* send_message either delivers or raises; a handler that catches the
\* exception only logs it.
Send(delivered, msg) == IF delivered THEN {msg} ELSE {}

\* what the except clause is left with: the message that was not delivered
Unsent(delivered, msgs) == IF delivered THEN {} ELSE msgs

\* What each handler sends to the other party, from the fields of the update
\* it handles.  The handlers send after they have written the sheet, inside
\* a try whose except clause logs, so whether the message is delivered
\* (`delivered`) has no effect on what is stored.

\* request_driver_callback: the request with its three buttons, to the
\* driver, when the driver has a row in the Drivers sheet
request_driver_sends(recs, d, oid, c, p, delivered) ==
    IF FirstRow(recs, "chat_id", d) # 0
    THEN Send(delivered, Message("request", d, oid, c, p))
    ELSE {}

\* driver_accept_callback: the acceptance, to the client named in the button
driver_accept_sends(u, oid, c, p, delivered) ==
    Send(delivered, Message("accepted", c, oid, u, p))

\* driver_reject_callback: the rejection, which names neither order nor driver
driver_reject_sends(u, oid, c, delivered) ==
    Send(delivered, Message("rejected", c, Empty, 0, ""))

\* variant: the buttons carry the price the client asked for
counter_offer_sends_asked_price(data, u, txt, delivered) ==
    IF data.kind = "pending_counter" /\ IsNumeric(txt)
    THEN Send(delivered, Message("counter_offer", data.client_chat_id,
                                 data.order_id, u, data.client_price))
    ELSE {}

\* handle_driver_text_for_counter: the counter offer with its accept and
\* reject buttons, to the client remembered with the pending counter
counter_offer_sends(data, u, txt, delivered) ==
    IF data.kind = "pending_counter" /\ IsNumeric(txt)
    THEN Send(delivered, Message("counter_offer", data.client_chat_id,
                                 data.order_id, u, FloatStr(txt)))
    ELSE {}

\* client_accept_counter_callback: the confirmation, to the driver
client_accept_counter_sends(u, oid, d, proposed, delivered) ==
    Send(delivered, Message("counter_accepted", d, oid, 0, proposed))

\* client_reject_counter_callback: the refusal, to the driver
client_reject_counter_sends(u, oid, d, delivered) ==
    Send(delivered, Message("counter_rejected", d, oid, 0, ""))

\* --------------------------------------------------------------------- Init
Init ==
    /\ users = <<>>
    /\ drivers = <<>>
    /\ orders = <<>>
    /\ requested = <<>>
    /\ appData = [c \in Chats |-> NoData]
    /\ now = 0
    /\ found = NoQuery
    /\ undelivered = {}
    /\ running = NoTasks
    /\ userData = [c \in Chats |-> NoUserData]

\* ----------------------------------------------------------- Orders sheet
OrderIds == {new_order_id(t) : t \in 0..MaxNow}

UpdatableColumns ==
    {"status", "driver_id", "driver_name", "driver_price", "counter_price"}

\* update.effective_user.full_name / query.from_user.full_name
FullName(chat) == <<"name", chat>>

\* variant: a client with a pending order gets no second one
add_order_unless_pending(recs, order) ==
    IF \E i \in 1..Len(recs) :
          recs[i].client_id = order.client_id /\ recs[i].status = "pending"
    THEN recs
    ELSE Append(recs, order)

\* variant: a new order rejects the client's earlier pending orders
add_order_cancelling_pending(recs, order) ==
    Append([k \in 1..Len(recs) |->
               IF recs[k].status = "pending" /\ recs[k].client_id = order.client_id
               THEN [recs[k] EXCEPT !.status = "rejected"]
               ELSE recs[k]],
           order)

\* add_order_to_sheet: orders_ws.append_row(row)
add_order_to_sheet(recs, order) == Append(recs, order)

\* variant: the update also blanks the pickup location of the row
update_order_clearing_pickup(recs, order_id, updates) ==
    LET i == FirstRow(recs, "order_id", order_id)
    IN  IF i = 0 THEN recs
        ELSE [recs EXCEPT ![i] =
                [f \in DOMAIN recs[i] |->
                    IF f \in (DOMAIN updates) \cap UpdatableColumns
                    THEN updates[f]
                    ELSE IF f = "pickup_loc" THEN Empty ELSE recs[i][f]]]

\* update_order_in_sheet: the first row with this order id gets the columns
\* named in `updates`; every other row and column is left as it is.
update_order_in_sheet(recs, order_id, updates) ==
    LET i == FirstRow(recs, "order_id", order_id)
    IN  IF i = 0 THEN recs
        ELSE [recs EXCEPT ![i] =
                [f \in DOMAIN recs[i] |->
                    IF f \in (DOMAIN updates) \cap UpdatableColumns
                    THEN updates[f] ELSE recs[i][f]]]

\* the return value of update_order_in_sheet
OrderFound(recs, order_id) == FirstRow(recs, "order_id", order_id) # 0

\* ---------------------------------------------------------- Drivers sheet
DriverRow(id, chat, info, t) ==
    [driver_id |-> id, chat_id |-> chat,
     nationality |-> info.nationality, vehicle_type |-> info.vehicle_type,
     gender |-> info.gender,
     latitude |-> Empty, longitude |-> Empty,
     last_update |-> t, active |-> "yes"]

\* variant: every registration appends a row
register_driver_always_append(recs, chat, info, t) ==
    Append(recs, DriverRow(new_driver_id(t), chat, info, t))

\* register_driver: the row of this chat_id is overwritten and re-activated;
\* without one a row with a new driver id is appended.
register_driver(recs, chat, info, t) ==
    LET i == FirstRow(recs, "chat_id", chat)
    IN  IF i # 0
        THEN [recs EXCEPT ![i] =
                [@ EXCEPT !.nationality = info.nationality,
                          !.vehicle_type = info.vehicle_type,
                          !.gender = info.gender,
                          !.active = "yes",
                          !.last_update = t]]
        ELSE Append(recs, DriverRow(new_driver_id(t), chat, info, t))

\* register_driver: the driver id it returns
registered_driver_id(recs, chat, t) ==
    LET i == FirstRow(recs, "chat_id", chat)
    IN  IF i # 0 THEN recs[i].driver_id ELSE new_driver_id(t)

\* A numeric sheet cell; float() of a cell fails exactly on the empty cell.
Num(x) == <<x>>
IsFloat(cell) == cell # Empty

\* Coordinates in hundredths of a degree.
PA == <<2471, 4667>>      \* (24.71, 46.67)
PB == <<2470, 4668>>      \* (24.70, 46.68)
PC == <<2480, 4670>>      \* (24.80, 46.70)
PX == <<134, 1000>>       \* (1.34, 10.0)
PY == <<-134, -17000>>    \* (-1.34, -170.0), the antipode of PX
Points == {PA, PB, PC, PX, PY}
ReportPoints == {PA, PC}     \* the places drivers report in the small runs

\* haversine has no distance to return (`return None`)
NoDist == -1

\* haversine on the model's points, in metres (the kilometres of the source
\* times 1000, truncated).  Between PX and PY the rounded `a` exceeds 1,
\* math.sqrt(1 - a) raises and the function returns None.
haversine(lat1, lon1, lat2, lon2) ==
    LET p == <<lat1, lon1>>
        q == <<lat2, lon2>>
        Between(a, b) == {p, q} = {a, b}
    IN  CASE p = q -> 0
          [] Between(PA, PB) -> 1502
          [] Between(PA, PC) -> 10455
          [] Between(PB, PC) -> 11301
          [] Between(PA, PX) -> 4716871
          [] Between(PB, PX) -> 4717247
          [] Between(PC, PX) -> 4724214
          [] Between(PA, PY) -> 15298215
          [] Between(PB, PY) -> 15297838
          [] Between(PC, PY) -> 15290872
          [] Between(PX, PY) -> NoDist
          \* a latitude and a longitude that come from two reports
          [] Between(PB, <<PA[1], PC[2]>>) -> 2306
          [] Between(PB, <<PC[1], PA[2]>>) -> 11165

\* str(x).strip().lower() on the texts of the model
Normalize(txt) ==
    CASE txt \in {"Saudi", "saudi", " SAUDI "} -> "saudi"
      [] txt \in {"Car", "car", "CAR"} -> "car"
      [] OTHER -> txt

\* no filter / no client location (None)
NoFilter == "None"
NoLoc == <<>>

\* variant: every call appends a row
register_user_always_append(recs, user, role) ==
    Append(recs, [user_id |-> user, role |-> role])

\* register_user: a user without a row gets one; a user with a row of
\* another role has the role of all their rows rewritten; a user who already
\* has the role causes no write.
register_user(recs, user, role) ==
    LET i == FirstRow(recs, "user_id", user)
    IN  IF i = 0 THEN Append(recs, [user_id |-> user, role |-> role])
        ELSE IF recs[i].role # role
             THEN [k \in DOMAIN recs |->
                      IF recs[k].user_id = user
                      THEN [recs[k] EXCEPT !.role = role]
                      ELSE recs[k]]
             ELSE recs

\* get_user_role: the role of the first Users row of this user, "" without one
get_user_role(recs, user) ==
    LET i == FirstRow(recs, "user_id", user)
    IN  IF i = 0 THEN "" ELSE recs[i].role

\* variant: the comparison of chat ids is inverted, the position goes to the
\* first row of another chat
update_driver_location_other_chat(recs, chat, lat, lon, t) ==
    LET rows == {k \in 1..Len(recs) : recs[k].chat_id # chat}
    IN  IF rows = {} THEN recs
        ELSE LET i == CHOOSE k \in rows : \A m \in rows : k <= m
             IN  [recs EXCEPT ![i] =
                     [@ EXCEPT !.latitude = Num(lat),
                               !.longitude = Num(lon),
                               !.last_update = t,
                               !.active = "yes"]]

\* update_driver_location: the first row of this chat_id gets the position,
\* the time of the report and active = yes.
update_driver_location(recs, chat, lat, lon, t) ==
    LET i == FirstRow(recs, "chat_id", chat)
    IN  IF i = 0 THEN recs
        ELSE [recs EXCEPT ![i] =
                [@ EXCEPT !.latitude = Num(lat),
                          !.longitude = Num(lon),
                          !.last_update = t,
                          !.active = "yes"]]

\* variant: the call refreshes the time and leaves the flag as it is
set_driver_active_keeps_flag(recs, chat, active, t) ==
    LET i == FirstRow(recs, "chat_id", chat)
    IN  IF i = 0 THEN recs
        ELSE [recs EXCEPT ![i] = [@ EXCEPT !.last_update = t]]

\* set_driver_active: writes the flag and the time of the call.
set_driver_active(recs, chat, active, t) ==
    LET i == FirstRow(recs, "chat_id", chat)
    IN  IF i = 0 THEN recs
        ELSE [recs EXCEPT ![i] =
                [@ EXCEPT !.active = IF active THEN "yes" ELSE "no",
                          !.last_update = t]]

\* get_active_drivers_records, per row
active_flag(r) == r.active \in {"yes", "true"}

\* variant: a driver exactly at the threshold counts as stale
within_threshold_exclusive(r, t) ==
    (t - r.last_update) < INACTIVE_THRESHOLD * 60

\* minutes_diff <= INACTIVE_THRESHOLD, with minutes_diff = seconds / 60.0
within_threshold(r, t) == (t - r.last_update) <= INACTIVE_THRESHOLD * 60

\* get_active_drivers_records: the rows it returns, in sheet order
active_records(recs, t) ==
    SelectSeq(recs, LAMBDA r : active_flag(r) /\ within_threshold(r, t))

\* variant: the query with mark_inactive=False, which writes nothing
keep_stale_active(recs, t) == recs

\* variant: the query marks every row it read inactive
mark_every_row_inactive(recs, t) ==
    [i \in DOMAIN recs |-> [recs[i] EXCEPT !.active = "no"]]

\* variant: marking a stale row also stamps it with the time of the query
mark_inactive_and_stamp(recs, t) ==
    [i \in DOMAIN recs |->
        IF active_flag(recs[i]) /\ ~within_threshold(recs[i], t)
        THEN [recs[i] EXCEPT !.active = "no", !.last_update = t]
        ELSE recs[i]]

\* get_active_drivers_records: the sheet after it marked the stale rows
mark_inactive(recs, t) ==
    [i \in DOMAIN recs |->
        IF active_flag(recs[i]) /\ ~within_threshold(recs[i], t)
        THEN [recs[i] EXCEPT !.active = "no"]
        ELSE recs[i]]

\* variant: the filters are compared with the attributes as they are stored
passes_as_stored(d, nation, vtype, gender) ==
    /\ nation = NoFilter \/ d.nationality = nation
    /\ vtype = NoFilter \/ d.vehicle_type = vtype
    /\ gender = NoFilter \/ d.gender = gender
    /\ IsFloat(d.latitude)
    /\ IsFloat(d.longitude)

\* filter_and_sort_drivers, the loop body: does the row pass the filters and
\* have coordinates float() accepts
passes(d, nation, vtype, gender) ==
    /\ nation = NoFilter \/ Normalize(d.nationality) = Normalize(nation)
    /\ vtype = NoFilter \/ Normalize(d.vehicle_type) = Normalize(vtype)
    /\ gender = NoFilter \/ Normalize(d.gender) = Normalize(gender)
    /\ IsFloat(d.latitude)
    /\ IsFloat(d.longitude)

\* the pair (d, dist) appended for a row that passes
candidate(d, client_loc) ==
    [chat_id |-> d.chat_id,
     dist |-> IF client_loc = NoLoc THEN NoDist
              ELSE haversine(client_loc[1], client_loc[2],
                             d.latitude[1], d.longitude[1])]

RECURSIVE filtered_candidates(_, _, _, _, _)
filtered_candidates(cands, client_loc, nation, vtype, gender) ==
    IF cands = <<>> THEN <<>>
    ELSE LET d == Head(cands)
             rest == filtered_candidates(Tail(cands), client_loc,
                                         nation, vtype, gender)
         IN  IF passes(d, nation, vtype, gender)
             THEN <<candidate(d, client_loc)>> \o rest
             ELSE rest

\* variant: a missing distance sorts as zero
sort_key_none_first(c) == IF c.dist # NoDist THEN c.dist ELSE 0

\* key=lambda x: x[1] if x[1] is not None else 99999  (kilometres)
sort_key(c) == IF c.dist # NoDist THEN c.dist ELSE NO_DISTANCE_KEY * 1000

\* list.sort is stable: an element goes behind every element whose key is
\* not greater than its own.
RECURSIVE insert_sorted(_, _)
insert_sorted(sorted, c) ==
    IF sorted = <<>> THEN <<c>>
    ELSE IF sort_key(Head(sorted)) <= sort_key(c)
         THEN <<Head(sorted)>> \o insert_sorted(Tail(sorted), c)
         ELSE <<c>> \o sorted

RECURSIVE stable_sort(_)
stable_sort(seq) ==
    IF seq = <<>> THEN <<>>
    ELSE insert_sorted(stable_sort(SubSeq(seq, 1, Len(seq) - 1)),
                       seq[Len(seq)])

\* filter_and_sort_drivers: the list it returns
filter_and_sort_drivers(recs, t, client_loc, nation, vtype, gender) ==
    LET filtered == filtered_candidates(active_records(recs, t), client_loc,
                                        nation, vtype, gender)
        ordered == IF client_loc # NoLoc THEN stable_sort(filtered)
                   ELSE filtered
    IN  SubSeq(ordered, 1, Min(Len(ordered), MAX_DISPLAY_DRIVERS))

\* display_nearby_drivers(update, context, client_loc, client_price="25")
DefaultPrice == "25"

\* What a handler's search read and returned, and the price its request
\* buttons carry (f"request:{chat_id}:{client_price}").
Query(recs, t, client_loc, nation, vtype, gender, price) ==
    [ran |-> TRUE, pre |-> recs, at |-> t, loc |-> client_loc,
     nation |-> nation, vtype |-> vtype, gender |-> gender, price |-> price,
     active |-> active_records(recs, t),
     cands |-> filter_and_sort_drivers(recs, t, client_loc,
                                       nation, vtype, gender)]

\* ------------------------------------------------------ negotiation actions
\* time passes (one second)
TickSecond ==
    /\ now < MaxNow
    /\ now' = now + 1
    /\ found' = NoQuery
    /\ undelivered' = {}
    /\ UNCHANGED <<users, drivers, orders, requested, appData, running,
                   userData>>

\* request_driver_callback: the client `c` pressed "request:<d>:<p>".  The
\* order is appended first; the driver is looked up afterwards and, when
\* found, is sent the request with its three buttons.
request_driver_callback(c, d, p, delivered) ==
    LET order == [order_id |-> new_order_id(now),
                  client_id |-> c,
                  pickup_loc |-> userData[c].client_search_loc,
                  client_price |-> WithCurrency(p),
                  status |-> "pending",
                  driver_id |-> Empty,
                  driver_name |-> Empty,
                  driver_price |-> Empty,
                  counter_price |-> Empty,
                  timestamp |-> now]
        known == FirstRow(drivers, "chat_id", d) # 0
    IN  /\ Len(orders) < MaxOrders
        /\ orders' = add_order_to_sheet(orders, order)
        /\ requested' = Append(requested, d)
        /\ appData' = IF known
                      THEN [appData EXCEPT ![d] =
                              [kind |-> "pending_order",
                               order_id |-> order.order_id,
                               client_chat_id |-> c,
                               client_price |-> p]]
                      ELSE appData
        /\ found' = NoQuery
        /\ undelivered' = Unsent(delivered,
                          request_driver_sends(drivers, d, order.order_id,
                                               c, p, TRUE))
        /\ UNCHANGED <<users, drivers, now, running,
                       userData>>

\* variant: the acceptance is stored only when the client could be told
driver_accept_or_roll_back(u, oid, c, p, delivered) ==
    /\ orders' = IF delivered
                 THEN update_order_in_sheet(orders, oid,
                         [status |-> "accepted",
                          driver_id |-> DriverIdOfChat(u),
                          driver_name |-> FullName(u),
                          driver_price |-> WithCurrency(p)])
                 ELSE orders
    /\ found' = NoQuery
    /\ undelivered' = Unsent(delivered, driver_accept_sends(u, oid, c, p, TRUE))
    /\ UNCHANGED <<users, drivers, requested, appData, now, running,
                   userData>>

\* driver_accept_callback: `u` pressed "driver_accept:<oid>:<c>:<p>".
driver_accept_callback(u, oid, c, p, delivered) ==
    /\ orders' = update_order_in_sheet(orders, oid,
                    [status |-> "accepted",
                     driver_id |-> DriverIdOfChat(u),
                     driver_name |-> FullName(u),
                     driver_price |-> WithCurrency(p)])
    /\ found' = NoQuery
    /\ undelivered' = Unsent(delivered, driver_accept_sends(u, oid, c, p, TRUE))
    /\ UNCHANGED <<users, drivers, requested, appData, now, running,
                   userData>>

\* driver_reject_callback: `u` pressed "driver_reject:<oid>:<c>".  The text
\* sent to the client names neither the order nor the driver.
driver_reject_callback(u, oid, c, delivered) ==
    /\ orders' = update_order_in_sheet(orders, oid, [status |-> "rejected"])
    /\ found' = NoQuery
    /\ undelivered' = Unsent(delivered, driver_reject_sends(u, oid, c, TRUE))
    /\ UNCHANGED <<users, drivers, requested, appData, now, running,
                   userData>>

\* driver_counter_callback: `u` pressed "driver_counter:<oid>:<c>:<p>"; the
\* bot only remembers which order the next text of `u` is a price for.
driver_counter_callback(u, oid, c, p) ==
    /\ appData' = [appData EXCEPT ![u] =
                     [kind |-> "pending_counter",
                      order_id |-> oid,
                      client_chat_id |-> c,
                      client_price |-> p]]
    /\ found' = NoQuery
    /\ undelivered' = {}
    /\ UNCHANGED <<users, drivers, orders, requested, now, running,
                   userData>>

\* handle_driver_text_for_counter: what is left of the driver's entry in
\* application.user_data.  The pop is the last statement; the handler
\* returns before it when float(txt) raises.
pending_after_text(data, txt) == IF IsNumeric(txt) THEN NoData ELSE data

\* handle_driver_text_for_counter: `u` sent the text `txt`.  A number is
\* stored as the counter price and offered to the client with an accept and
\* a reject button; anything else is answered with a hint and changes nothing.
handle_driver_text_for_counter(u, txt, delivered) ==
    LET data == appData[u]
        oid == data.order_id
    IN  /\ data.kind = "pending_counter"
        /\ orders' = IF IsNumeric(txt)
                     THEN update_order_in_sheet(orders, oid,
                             [status |-> "counter_proposed",
                              counter_price |-> WithCurrency(FloatStr(txt))])
                     ELSE orders
        /\ appData' = [appData EXCEPT ![u] = pending_after_text(data, txt)]
        /\ found' = NoQuery
        /\ undelivered' = Unsent(delivered,
                          counter_offer_sends(data, u, txt, TRUE))
        /\ UNCHANGED <<users, drivers, requested, now, running,
                       userData>>

\* client_accept_counter_callback: `u` pressed
\* "client_accept_counter:<oid>:<d>:<proposed>".
client_accept_counter_callback(u, oid, d, proposed, delivered) ==
    /\ orders' = update_order_in_sheet(orders, oid,
                    [status |-> "accepted",
                     driver_id |-> DriverIdOfChat(d),
                     driver_price |-> WithCurrency(proposed),
                     counter_price |-> WithCurrency(proposed)])
    /\ found' = NoQuery
    /\ undelivered' = Unsent(delivered,
                 client_accept_counter_sends(u, oid, d, proposed, TRUE))
    /\ UNCHANGED <<users, drivers, requested, appData, now, running,
                   userData>>

\* client_reject_counter_callback: `u` pressed
\* "client_reject_counter:<oid>:<d>".
client_reject_counter_callback(u, oid, d, delivered) ==
    /\ orders' = update_order_in_sheet(orders, oid, [status |-> "rejected"])
    /\ found' = NoQuery
    /\ undelivered' = Unsent(delivered, client_reject_counter_sends(u, oid, d, TRUE))
    /\ UNCHANGED <<users, drivers, requested, appData, now, running,
                   userData>>

\* driver_gender: the last step of the driver registration conversation.
driver_gender(u, info) ==
    /\ drivers' = register_driver(drivers, u, info, now)
    /\ found' = NoQuery
    /\ undelivered' = {}
    /\ UNCHANGED <<users, orders, requested, appData, now, running,
                   userData>>

\* ------------------------------------------------- negotiation specification
\* One client (chat 1), one chat that registers as a driver (chat 2) and one
\* that never does (chat 3); any of them may press any button.
InitNegotiation ==
    /\ users = <<>>
    /\ drivers \in {register_driver(<<>>, 2, info, 0) : info \in Infos}
    /\ orders = <<>>
    /\ requested = <<>>
    /\ appData = [c \in Chats |-> NoData]
    /\ now = 0
    /\ found = NoQuery
    /\ undelivered = {}
    /\ running = NoTasks
    /\ userData = [c \in Chats |-> NoUserData]

\* the prices an accept button of a counter offer may carry: str(float(txt))
OfferedPrices == {FloatStr(txt) : txt \in {t \in ReplyTexts : IsNumeric(t)}}

NextNegotiation ==
    \/ TickSecond
    \/ \E c \in Clients, d \in Responders, p \in PriceTexts :
          request_driver_callback(c, d, p, TRUE)
    \/ \E u \in Responders, oid \in OrderIds, c \in Clients, p \in PriceTexts :
          driver_accept_callback(u, oid, c, p, TRUE)
    \/ \E u \in Responders, oid \in OrderIds, c \in Clients :
          driver_reject_callback(u, oid, c, TRUE)
    \/ \E u \in Responders, oid \in OrderIds, c \in Clients, p \in PriceTexts :
          driver_counter_callback(u, oid, c, p)
    \/ \E u \in Responders, txt \in ReplyTexts :
          handle_driver_text_for_counter(u, txt, TRUE)
    \/ \E u \in Chats, oid \in OrderIds, d \in Responders, p \in OfferedPrices :
          client_accept_counter_callback(u, oid, d, p, TRUE)
    \/ \E u \in Chats, oid \in OrderIds, d \in Responders :
          client_reject_counter_callback(u, oid, d, TRUE)

SpecNegotiation == InitNegotiation /\ [][NextNegotiation]_vars

\* ------------------------------------------------------- price specification
\* One client (chat 1) and one registered driver (chat 2).  The driver
\* presses only buttons the bot has sent: a request message carries the id,
\* the client and the price of the order it was sent for.  Deliveries to the
\* driver succeed; those to the client may fail.
RequestButton(u, oid, c, p) ==
    \E i \in 1..Len(orders) :
        /\ requested[i] = u
        /\ orders[i].order_id = oid
        /\ orders[i].client_id = c
        /\ orders[i].client_price = WithCurrency(p)

\* the prices an accept button of a counter offer may carry in these runs
CounterValues == {FloatStr(txt) : txt \in {t \in CounterTexts : IsNumeric(t)}}

NextPrices ==
    \/ TickSecond
    \/ \E p \in AskedPrices : request_driver_callback(1, 2, p, TRUE)
    \/ \E oid \in OrderIds, p \in AskedPrices, ok \in BOOLEAN :
          RequestButton(2, oid, 1, p) /\ driver_accept_callback(2, oid, 1, p, ok)
    \/ \E oid \in OrderIds, p \in AskedPrices :
          RequestButton(2, oid, 1, p) /\ driver_counter_callback(2, oid, 1, p)
    \/ \E txt \in CounterTexts, ok \in BOOLEAN :
          handle_driver_text_for_counter(2, txt, ok)
    \/ \E oid \in OrderIds, p \in CounterValues, ok \in BOOLEAN :
          client_accept_counter_callback(1, oid, 2, p, ok)

SpecPrices == InitNegotiation /\ [][NextPrices]_vars

\* --------------------------------------------------------- registry actions
\* time passes (one coarse step)
TickMinutes ==
    /\ now < MaxTicks * TickStep
    /\ now' = now + TickStep
    /\ found' = NoQuery
    /\ undelivered' = {}
    /\ UNCHANGED <<users, drivers, orders, requested, appData, running,
                   userData>>

\* driver_live_location: `u` sent the location `pt`.  A driver's report is
\* stored; anybody else is shown the drivers near `pt` (display_nearby_drivers
\* with the default price), which runs the candidate search.
driver_live_location(u, pt) ==
    /\ IF get_user_role(users, u) = "driver"
       THEN /\ drivers' = update_driver_location(drivers, u, pt[1], pt[2], now)
            /\ found' = NoQuery
            /\ userData' = userData
       ELSE /\ drivers' = mark_inactive(drivers, now)
            /\ found' = Query(drivers, now, pt, NoFilter, NoFilter, NoFilter,
                              DefaultPrice)
            /\ userData' = [userData EXCEPT ![u].client_search_loc = pt]
    /\ undelivered' = {}
    /\ UNCHANGED <<users, orders, requested, appData, now, running>>

\* stop_tracking: only a driver's request reaches set_driver_active.
stop_tracking(u) ==
    /\ drivers' = IF get_user_role(users, u) = "driver"
                  THEN set_driver_active(drivers, u, FALSE, now)
                  ELSE drivers
    /\ found' = NoQuery
    /\ undelivered' = {}
    /\ UNCHANGED <<users, orders, requested, appData, now, running,
                   userData>>

\* client_display_choice: the end of the /find_driver conversation, with the
\* location and filters the conversation left in user_data.
client_display_choice(u, client_loc, nation, vtype, gender) ==
    /\ drivers' = mark_inactive(drivers, now)
    /\ found' = Query(drivers, now, client_loc, nation, vtype, gender,
                      userData[u].client_price)
    /\ undelivered' = {}
    /\ UNCHANGED <<users, orders, requested, appData, now, running,
                   userData>>

\* client_price: the answer to the price question of the filter
\* conversation, stored as it was typed
client_price(u, txt) ==
    /\ userData' = [userData EXCEPT ![u].client_price = txt]
    /\ found' = NoQuery
    /\ undelivered' = {}
    /\ UNCHANGED <<users, drivers, orders, requested, appData, now, running>>

\* handle_client_price_input: a text of a chat that was asked for a price
\* after a location (awaiting_price); `client_loc` is the location that was
\* stored with the question.  A number starts the display with str(float)
\* as the price; anything else is answered with a hint.
handle_client_price_input(u, txt, client_loc) ==
    LET shows == userData[u].awaiting_price /\ IsNumeric(txt)
    IN  /\ drivers' = IF shows THEN mark_inactive(drivers, now) ELSE drivers
        /\ found' = IF shows
                    THEN Query(drivers, now, client_loc, NoFilter, NoFilter,
                               NoFilter, FloatStr(txt))
                    ELSE NoQuery
        /\ userData' = IF shows
                       THEN [userData EXCEPT ![u].awaiting_price = FALSE]
                       ELSE userData
        /\ undelivered' = {}
        /\ UNCHANGED <<users, orders, requested, appData, now, running>>

\* ---------------------------------------------------- registry specifications
\* The Users sheet after chat 1 chose "client" and chats 2, 3, 4 "driver".
InitRegistry ==
    /\ users = <<[user_id |-> 1, role |-> "client"],
                 [user_id |-> 2, role |-> "driver"],
                 [user_id |-> 3, role |-> "driver"],
                 [user_id |-> 4, role |-> "driver"]>>
    /\ drivers = <<>>
    /\ orders = <<>>
    /\ requested = <<>>
    /\ appData = [c \in Chats |-> NoData]
    /\ now = 0
    /\ found = NoQuery
    /\ undelivered = {}
    /\ running = NoTasks
    /\ userData = [c \in Chats |-> NoUserData]

\* Staleness: two drivers, one place, a clock that passes the threshold.
NextStaleness ==
    \/ TickMinutes
    \/ \E u \in {2, 3}, info \in Infos : driver_gender(u, info)
    \/ \E u \in {1, 2, 3} : driver_live_location(u, PA)
    \/ \E u \in {2, 3} : stop_tracking(u)
    \/ client_display_choice(1, NoLoc, NoFilter, NoFilter, NoFilter)

SpecStaleness == InitRegistry /\ [][NextStaleness]_vars

\* Matching: three drivers at several places, no time passing.
DriverPoints == {PA, PC, PY}
ClientPoints == {PB, PX}
FilterNations == {NoFilter, " SAUDI "}

NextMatch ==
    \/ \E u \in {2, 3, 4}, info \in Infos : driver_gender(u, info)
    \/ \E u \in {2, 3, 4}, pt \in DriverPoints : driver_live_location(u, pt)
    \/ \E pt \in ClientPoints : driver_live_location(1, pt)
    \/ \E u \in {2, 3, 4} : stop_tracking(u)
    \/ \E loc \in ClientPoints \cup {NoLoc}, nation \in FilterNations :
          client_display_choice(1, loc, nation, NoFilter, NoFilter)

SpecMatch == InitRegistry /\ [][NextMatch]_vars

\* ------------------------------------------------- handlers, call by call
\* The location handler with each sheet call as a step of its own: the read
\* (get_all_records) when the handler begins, then one update_cell per step.

\* variant: a search may begin while a report has not returned
may_start_during_report(tasks) == tasks["query"] = Idle

\* variant: updates are handled concurrently (concurrent_updates=True)
may_start_concurrently(tasks) == TRUE

\* Application.builder().token(BOT_TOKEN).build() leaves concurrent_updates
\* off: the application awaits the handler of an update before it takes the
\* next update, and the sheet calls of a handler block the event loop.
may_start(tasks) == \A h \in DOMAIN tasks : tasks[h] = Idle

\* driver_live_location of a driver, up to the scan of update_driver_location
\* that finds the row to write
begin_report(u, pt) ==
    LET i == FirstRow(drivers, "chat_id", u)
    IN  /\ may_start(running)
        /\ running["report"] = Idle
        /\ get_user_role(users, u) = "driver"
        /\ running' = IF i = 0 THEN running
                      ELSE [running EXCEPT !["report"] =
                              [op |-> "report", row |-> i,
                               lat |-> Num(pt[1]), lon |-> Num(pt[2]),
                               cell |-> 11]]
        /\ found' = NoQuery
        /\ undelivered' = {}
        /\ UNCHANGED <<users, drivers, orders, requested, appData, now,
                       userData>>

\* update_driver_location: the next update_cell (columns 11 to 14)
report_cell ==
    LET t == running["report"]
    IN  /\ t.op = "report"
        /\ drivers' =
              CASE t.cell = 11 -> [drivers EXCEPT ![t.row].latitude = t.lat]
                [] t.cell = 12 -> [drivers EXCEPT ![t.row].longitude = t.lon]
                [] t.cell = 13 -> [drivers EXCEPT ![t.row].last_update = now]
                [] t.cell = 14 -> [drivers EXCEPT ![t.row].active = "yes"]
        /\ running' = [running EXCEPT !["report"] =
                          IF t.cell = 14 THEN Idle
                          ELSE [t EXCEPT !.cell = t.cell + 1]]
        /\ UNCHANGED <<users, orders, requested, appData, now, found,
                       undelivered, userData>>

\* driver_live_location of anybody else, up to the read of
\* get_active_drivers_records
begin_search(u, pt) ==
    /\ may_start(running)
    /\ running["query"] = Idle
    /\ get_user_role(users, u) # "driver"
    /\ running' = [running EXCEPT !["query"] =
                      [op |-> "query", recs |-> drivers, at |-> now,
                       loc |-> pt, row |-> 1]]
    /\ userData' = [userData EXCEPT ![u].client_search_loc = pt]
    /\ found' = NoQuery
    /\ undelivered' = {}
    /\ UNCHANGED <<users, drivers, orders, requested, appData, now>>

\* get_active_drivers_records: the next row of the rows it read; a row read
\* as active and stale has "no" written to its column 14
search_row ==
    LET t == running["query"]
    IN  /\ t.op = "query"
        /\ t.row <= Len(t.recs)
        /\ drivers' = IF active_flag(t.recs[t.row])
                         /\ ~within_threshold(t.recs[t.row], t.at)
                      THEN [drivers EXCEPT ![t.row].active = "no"]
                      ELSE drivers
        /\ running' = [running EXCEPT !["query"].row = t.row + 1]
        /\ UNCHANGED <<users, orders, requested, appData, now, found,
                       undelivered, userData>>

\* filter_and_sort_drivers and the display, from the rows that were read
search_return ==
    LET t == running["query"]
    IN  /\ t.op = "query"
        /\ t.row > Len(t.recs)
        /\ found' = Query(t.recs, t.at, t.loc, NoFilter, NoFilter, NoFilter,
                          DefaultPrice)
        /\ running' = [running EXCEPT !["query"] = Idle]
        /\ UNCHANGED <<users, drivers, orders, requested, appData, now,
                       undelivered, userData>>

\* Two registered drivers and a client; time passes between the calls of a
\* handler as well as between handlers.
InitSerial ==
    /\ users = <<[user_id |-> 1, role |-> "client"],
                 [user_id |-> 2, role |-> "driver"],
                 [user_id |-> 3, role |-> "driver"]>>
    /\ drivers \in {register_driver(register_driver(<<>>, 2, info, 0),
                                    3, info, 0) : info \in Infos}
    /\ orders = <<>>
    /\ requested = <<>>
    /\ appData = [c \in Chats |-> NoData]
    /\ now = 0
    /\ found = NoQuery
    /\ undelivered = {}
    /\ running = NoTasks
    /\ userData = [c \in Chats |-> NoUserData]

NextSerial ==
    \/ TickMinutes
    \/ \E u \in {2, 3}, pt \in ReportPoints : begin_report(u, pt)
    \/ report_cell
    \/ begin_search(1, PB)
    \/ search_row
    \/ search_return

SpecSerial == InitSerial /\ [][NextSerial]_vars

\* ------------------------------------------------------------ role actions
\* the answers to "choose your type": the client button, the driver button
\* and any other text
RoleTexts == {"client", "driver", "other"}

\* role_choice: the answer to /start's question.  A button registers the
\* role; any other text is answered with a hint.
role_choice(u, txt) ==
    /\ users' = IF txt \in {"client", "driver"}
                THEN register_user(users, u, txt)
                ELSE users
    /\ found' = NoQuery
    /\ undelivered' = {}
    /\ UNCHANGED <<drivers, orders, requested, appData, now, running,
                   userData>>

\* become_driver: /become_driver of a user who is not a driver yet
become_driver(u) ==
    /\ users' = IF get_user_role(users, u) = "driver"
                THEN users
                ELSE register_user(users, u, "driver")
    /\ found' = NoQuery
    /\ undelivered' = {}
    /\ UNCHANGED <<drivers, orders, requested, appData, now, running,
                   userData>>

\* Roles: three chats choose and change roles; a chat finishes the driver
\* registration while it has the driver role.
RoleChats == {1, 2, 3}

NextRoles ==
    \/ \E u \in RoleChats, txt \in RoleTexts : role_choice(u, txt)
    \/ \E u \in RoleChats : become_driver(u)
    \/ \E u \in RoleChats, info \in Infos :
          get_user_role(users, u) = "driver" /\ driver_gender(u, info)
    \/ \E u \in RoleChats : driver_live_location(u, PA)

SpecRoles == Init /\ [][NextRoles]_vars

\* Filtering: two drivers whose attributes are stored as they typed them
\* (driver_nation, driver_vtype and driver_gender store message.text as it
\* is), and a client whose filters are stored stripped (client_nation,
\* client_vtype, client_gender).
TypedInfos ==
    {[nationality |-> "saudi", vehicle_type |-> "Car", gender |-> "m"],
     [nationality |-> " SAUDI ", vehicle_type |-> "car", gender |-> "f"],
     [nationality |-> "Egyptian", vehicle_type |-> "CAR", gender |-> "m"]}
NationFilters == {NoFilter, "Saudi", "Egyptian"}
VehicleFilters == {NoFilter, "car", "Bike"}
GenderFilters == {NoFilter, "f"}

NextFilter ==
    \/ \E u \in {2, 3}, info \in TypedInfos : driver_gender(u, info)
    \/ \E u \in {2, 3} : driver_live_location(u, PA)
    \/ \E u \in {2, 3} : stop_tracking(u)
    \/ \E loc \in {NoLoc, PB}, nation \in NationFilters,
          vtype \in VehicleFilters, gender \in GenderFilters :
          client_display_choice(1, loc, nation, vtype, gender)

SpecFilter == InitRegistry /\ [][NextFilter]_vars

\* Registration: chats 2 and 3 register, and register again with other
\* attributes, within the same second or a second apart; chat 1 is a client
\* and chat 4 never chose a role.
ReInfos ==
    Infos \cup {[nationality |-> "Egyptian", vehicle_type |-> "Bike",
                 gender |-> "f"]}

InitRegistration ==
    /\ users = <<[user_id |-> 1, role |-> "client"],
                 [user_id |-> 2, role |-> "driver"],
                 [user_id |-> 3, role |-> "driver"]>>
    /\ drivers = <<>>
    /\ orders = <<>>
    /\ requested = <<>>
    /\ appData = [c \in Chats |-> NoData]
    /\ now = 0
    /\ found = NoQuery
    /\ undelivered = {}
    /\ running = NoTasks
    /\ userData = [c \in Chats |-> NoUserData]

NextRegistration ==
    \/ TickSecond
    \/ \E u \in {2, 3}, info \in ReInfos : driver_gender(u, info)
    \/ \E u \in {2, 3}, pt \in ReportPoints : driver_live_location(u, pt)
    \/ driver_live_location(4, PB)
    \/ \E u \in {2, 3} : stop_tracking(u)
    \/ \E p \in PriceTexts : request_driver_callback(1, 2, p, TRUE)
    \/ \E oid \in OrderIds, p \in PriceTexts :
          RequestButton(2, oid, 1, p) /\ driver_accept_callback(2, oid, 1, p, TRUE)

SpecRegistration == InitRegistration /\ [][NextRegistration]_vars

\* Client prices: a client who types prices and searches, a driver who
\* registers and reports a place.  The display of the filter conversation
\* follows its price question; the client presses only request buttons of
\* the last display, which carry the drivers and the price it showed.
ClientPriceTexts == {"25", "abc"}
ShownPrices == ClientPriceTexts \cup {NoPrice, DefaultPrice, "25.0"}

RequestShown(d, p) ==
    /\ found.ran
    /\ found.price = p
    /\ \E k \in DOMAIN found.cands : found.cands[k].chat_id = d

NextClientPrice ==
    \/ TickSecond
    \/ \E info \in Infos : driver_gender(2, info)
    \/ driver_live_location(2, PA)
    \/ driver_live_location(1, PB)
    \/ \E txt \in ClientPriceTexts : client_price(1, txt)
    \/ \E txt \in ClientPriceTexts : handle_client_price_input(1, txt, PB)
    \/ /\ userData[1].client_price # NoPrice
       /\ client_display_choice(1, NoLoc, NoFilter, NoFilter, NoFilter)
    \/ \E p \in ShownPrices :
          RequestShown(2, p) /\ request_driver_callback(1, 2, p, TRUE)

SpecClientPrice == InitRegistration /\ [][NextClientPrice]_vars

\* --------------------------------- responses among the other kinds of event
\* One client, one driver and a third chat that changes role: the clock, role
\* choices, registration, location reports, candidate queries, stopping,
\* new orders, and the driver's responses to them.
EventRoleTexts == {"client", "driver"}

NextEvents ==
    \/ TickSecond
    \/ \E txt \in EventRoleTexts : role_choice(4, txt)
    \/ become_driver(4)
    \/ \E info \in Infos : driver_gender(2, info)
    \/ driver_live_location(2, PA)
    \/ driver_live_location(1, PB)
    \/ stop_tracking(2)
    \/ request_driver_callback(1, 2, "25", TRUE)
    \/ \E oid \in OrderIds :
          RequestButton(2, oid, 1, "25") /\ driver_accept_callback(2, oid, 1, "25", TRUE)
    \/ \E oid \in OrderIds :
          RequestButton(2, oid, 1, "25") /\ driver_reject_callback(2, oid, 1, TRUE)
    \/ \E oid \in OrderIds :
          RequestButton(2, oid, 1, "25") /\ driver_counter_callback(2, oid, 1, "25")
    \/ \E txt \in ReplyTexts : handle_driver_text_for_counter(2, txt, TRUE)

SpecEvents == InitRegistration /\ [][NextEvents]_vars

\* ------------------------------------------------- the handlers of main
\* The kinds of update the handlers of main tell apart: a text that is no
\* command, a location, the commands, and the callback data prefixes.
UpdateKinds ==
    {"text", "location",
     "/start", "/find_driver", "/start_tracking", "/stop_tracking",
     "/become_driver", "/help",
     "request:", "driver_accept:", "driver_reject:", "driver_counter:",
     "client_accept_counter:", "client_reject_counter:"}

\* the conversation states of conv; END is "in no conversation"
ConvStates ==
    {"END", "ROLE", "DRIVER_AGE", "DRIVER_NATION", "DRIVER_PHONE",
     "DRIVER_VTYPE", "DRIVER_VMAKE", "DRIVER_VYEAR", "DRIVER_GENDER",
     "CLIENT_PICK_LOC", "CLIENT_NATION", "CLIENT_VTYPE", "CLIENT_GENDER",
     "CLIENT_PRICE", "CLIENT_DISPLAY_CHOICE"}

\* app.add_handler, in the order of the calls; all in the default group
app_handlers ==
    <<"conv", "find_driver_start", "start_tracking", "stop_tracking",
      "become_driver", "help_command", "driver_live_location",
      "handle_client_price_input", "request_driver_callback",
      "driver_accept_callback", "driver_reject_callback",
      "driver_counter_callback", "client_accept_counter_callback",
      "client_reject_counter_callback", "handle_driver_text_for_counter">>

\* conv: the entry point /start in every state (allow_reentry); in a
\* conversation state the state's text handler (and the location handler of
\* CLIENT_PICK_LOC) and the fallback /help
conv_accepts(kind, st) ==
    \/ kind = "/start"
    \/ /\ st # "END"
       /\ \/ kind = "text"
          \/ kind = "/help"
          \/ st = "CLIENT_PICK_LOC" /\ kind = "location"

\* the filter or pattern each handler was registered with
accepts(h, kind, st) ==
    CASE h = "conv" -> conv_accepts(kind, st)
      [] h = "find_driver_start" -> kind = "/find_driver"
      [] h = "start_tracking" -> kind = "/start_tracking"
      [] h = "stop_tracking" -> kind = "/stop_tracking"
      [] h = "become_driver" -> kind = "/become_driver"
      [] h = "help_command" -> kind = "/help"
      [] h = "driver_live_location" -> kind = "location"
      [] h = "handle_client_price_input" -> kind = "text"
      [] h = "request_driver_callback" -> kind = "request:"
      [] h = "driver_accept_callback" -> kind = "driver_accept:"
      [] h = "driver_reject_callback" -> kind = "driver_reject:"
      [] h = "driver_counter_callback" -> kind = "driver_counter:"
      [] h = "client_accept_counter_callback" -> kind = "client_accept_counter:"
      [] h = "client_reject_counter_callback" -> kind = "client_reject_counter:"
      [] h = "handle_driver_text_for_counter" -> kind = "text"

\* Application.process_update: within a group the handlers are tried in the
\* order they were added and the first that accepts the update handles it
dispatch(kind, st) ==
    LET hits == {k \in DOMAIN app_handlers : accepts(app_handlers[k], kind, st)}
    IN  IF hits = {}
        THEN "none"
        ELSE app_handlers[CHOOSE k \in hits : \A j \in hits : k <= j]

\* A text that is no command, from a chat that is in no conversation (start
\* ends the conversation of a registered user at once).
text_message(u, txt, delivered) ==
    LET h == dispatch("text", "END")
    IN  IF h = "handle_client_price_input"
        THEN handle_client_price_input(u, txt, NoLoc)
        ELSE /\ h = "handle_driver_text_for_counter"
             /\ handle_driver_text_for_counter(u, txt, delivered)

NextDispatch ==
    \/ TickSecond
    \/ \E p \in AskedPrices : request_driver_callback(1, 2, p, TRUE)
    \/ \E oid \in OrderIds, p \in AskedPrices, ok \in BOOLEAN :
          RequestButton(2, oid, 1, p) /\ driver_accept_callback(2, oid, 1, p, ok)
    \/ \E oid \in OrderIds, p \in AskedPrices :
          RequestButton(2, oid, 1, p) /\ driver_counter_callback(2, oid, 1, p)
    \/ \E txt \in CounterTexts, ok \in BOOLEAN : text_message(2, txt, ok)

SpecDispatch == InitNegotiation /\ [][NextDispatch]_vars

\* ------------------------------------------- orders of a client who moves
\* The client sends a location before and after requesting; the driver and
\* the client then give every kind of response.
PickupPoints == {PA, PB}

NextOrderFields ==
    \/ TickSecond
    \/ \E pt \in PickupPoints : driver_live_location(1, pt)
    \/ \E p \in AskedPrices : request_driver_callback(1, 2, p, TRUE)
    \/ \E oid \in OrderIds, p \in AskedPrices :
          RequestButton(2, oid, 1, p) /\ driver_accept_callback(2, oid, 1, p, TRUE)
    \/ \E oid \in OrderIds, p \in AskedPrices :
          RequestButton(2, oid, 1, p) /\ driver_reject_callback(2, oid, 1, TRUE)
    \/ \E oid \in OrderIds, p \in AskedPrices :
          RequestButton(2, oid, 1, p) /\ driver_counter_callback(2, oid, 1, p)
    \/ \E txt \in ReplyTexts : handle_driver_text_for_counter(2, txt, TRUE)
    \/ \E oid \in OrderIds, p \in OfferedPrices :
          client_accept_counter_callback(1, oid, 2, p, TRUE)
    \/ \E oid \in OrderIds : client_reject_counter_callback(1, oid, 2, TRUE)

SpecOrderFields == InitNegotiation /\ [][NextOrderFields]_vars

\* ------------------------------------------------------ the whole program
Next ==
    \/ TickSecond
    \/ TickMinutes
    \/ \E u \in Chats, txt \in RoleTexts : role_choice(u, txt)
    \/ \E u \in Chats : become_driver(u)
    \/ \E u \in Chats, info \in Infos : driver_gender(u, info)
    \/ \E u \in Chats, pt \in Points : driver_live_location(u, pt)
    \/ \E u \in Chats : stop_tracking(u)
    \/ \E u \in Chats, txt \in ClientPriceTexts : client_price(u, txt)
    \/ \E u \in Chats, txt \in ClientPriceTexts, loc \in Points :
          handle_client_price_input(u, txt, loc)
    \/ \E u \in Chats, loc \in Points \cup {NoLoc}, nation \in FilterNations :
          client_display_choice(u, loc, nation, NoFilter, NoFilter)
    \/ NextNegotiation

Spec == Init /\ [][Next]_vars

\* ================================================================== claims
Terminal == {"accepted", "rejected"}

\* the Orders row a response addressed to `oid` is applied to
RowOf(oid) == FirstRow(orders, "order_id", oid)

\* a step of one of the driver-side responses that is applied to row i
DriverResponseTo(i, u) ==
    \/ \E oid \in OrderIds, c \in Clients,
          p \in PriceTexts \cup AskedPrices, ok \in BOOLEAN :
          RowOf(oid) = i /\ driver_accept_callback(u, oid, c, p, ok)
    \/ \E oid \in OrderIds, c \in Clients, ok \in BOOLEAN :
          RowOf(oid) = i /\ driver_reject_callback(u, oid, c, ok)
    \/ \E txt \in ReplyTexts \cup CounterTexts, ok \in BOOLEAN :
          /\ appData[u].kind = "pending_counter"
          /\ RowOf(appData[u].order_id) = i
          /\ handle_driver_text_for_counter(u, txt, ok)

ClientAcceptTo(i, u) ==
    \E oid \in OrderIds, d \in Responders,
       p \in OfferedPrices \cup CounterValues, ok \in BOOLEAN :
        RowOf(oid) = i /\ client_accept_counter_callback(u, oid, d, p, ok)

ClientRejectTo(i, u) ==
    \E oid \in OrderIds, d \in Responders, ok \in BOOLEAN :
        RowOf(oid) = i /\ client_reject_counter_callback(u, oid, d, ok)

\* C1: once an order is Accepted or Rejected, no later step (so no later
\* response) changes any of its fields.
C1_TerminalOrderFrozen ==
    [][\A i \in 1..Len(orders) :
          orders[i].status \in Terminal => orders'[i] = orders[i]]_vars

\* C2: an order's status changes only along Pending -> Accepted, Rejected,
\* CounterProposed and, by the client's answer to the counter,
\* CounterProposed -> Accepted, Rejected.
C2_StatusEdges ==
    [][\A i \in 1..Len(orders) :
          LET a == orders[i].status
              b == orders'[i].status
          IN  a # b =>
                \/ a = "pending" /\ b \in {"accepted", "rejected",
                                           "counter_proposed"}
                \/ /\ a = "counter_proposed"
                   /\ b = "accepted"
                   /\ \E u \in Chats : ClientAcceptTo(i, u)
                \/ /\ a = "counter_proposed"
                   /\ b = "rejected"
                   /\ \E u \in Chats : ClientRejectTo(i, u)]_vars

\* C3: of two responses of the designated driver to the same order only the
\* first changes it: a response of that driver to an order that an earlier
\* response has already moved out of Pending writes nothing to the order.
C3_OneWinner ==
    [][\A i \in 1..Len(orders) :
          (orders[i].status # "pending" /\ DriverResponseTo(i, requested[i]))
          => orders'[i] = orders[i]]_vars

\* C4: a driver-side response by a chat other than the driver the order was
\* requested from, and a client-side response by a chat other than the
\* order's client, leaves the order as it is.
C4_Unauthorized ==
    [][\A i \in 1..Len(orders) :
          /\ (\E u \in Responders :
                 u # requested[i] /\ DriverResponseTo(i, u))
             => orders'[i] = orders[i]
          /\ (\E u \in Chats :
                 /\ u # orders[i].client_id
                 /\ ClientAcceptTo(i, u) \/ ClientRejectTo(i, u))
             => orders'[i] = orders[i]]_vars

\* C5: an order has its driver id from the step that creates it, and the
\* driver id is the same in every later state.
C5_DriverIdFixed ==
    [][\A i \in 1..Len(orders') :
          /\ orders'[i].driver_id # Empty
          /\ i <= Len(orders) => orders'[i].driver_id = orders[i].driver_id]_vars

\* C6: a request for a driver without a row in the Drivers sheet appends no
\* order.
C6_InvalidCandidate ==
    [][\A c \in Clients, d \in Responders, p \in PriceTexts, ok \in BOOLEAN :
          (FirstRow(drivers, "chat_id", d) = 0
             /\ request_driver_callback(c, d, p, ok))
          => orders' = orders]_vars

\* ------------------------------------------------------- registry claims
StalenessWindow == INACTIVE_THRESHOLD * 60

\* the chat ids of a sequence of rows or candidates, in order
ChatIds(seq) == [k \in DOMAIN seq |-> seq[k].chat_id]

Returned(seq, chat) == \E k \in DOMAIN seq : seq[k].chat_id = chat

\* row i of the sheet the search read was stored Active and is stale
StaleActive(i) ==
    /\ found.pre[i].active = "yes"
    /\ found.pre[i].last_update + StalenessWindow < found.at

\* C7: a driver stored Active whose last update is older than the staleness
\* window is not in the result of an active-driver query and is stored
\* Inactive after it.
C7_StaleDemoted ==
    found.ran =>
        \A i \in DOMAIN found.pre :
            StaleActive(i) =>
                /\ ~Returned(found.active, found.pre[i].chat_id)
                /\ ~Returned(found.cands, found.pre[i].chat_id)
                /\ drivers[i].active = "no"

C7_Witness ==
    /\ found.ran
    /\ \E i \in DOMAIN found.pre :
          /\ StaleActive(i)
          /\ drivers[i].active = "no"
          /\ drivers[i].last_update = found.pre[i].last_update

\* row i of the sheet the search read is due in the result
Due(i) ==
    /\ found.pre[i].active = "yes"
    /\ found.at - found.pre[i].last_update <= StalenessWindow

\* C8: the active-driver query returns exactly the rows stored Active whose
\* last update is at most the staleness window old, in sheet order.
C8_ExactlyActive ==
    found.ran =>
        /\ \A i \in DOMAIN found.pre :
              Due(i) <=> \E k \in DOMAIN found.active :
                              found.active[k] = found.pre[i]
        /\ \A k \in DOMAIN found.active :
              \E i \in DOMAIN found.pre : found.active[k] = found.pre[i]
        /\ \A k, l \in DOMAIN found.active :
              k < l => \E i, j \in DOMAIN found.pre :
                          /\ i < j
                          /\ found.active[k] = found.pre[i]
                          /\ found.active[l] = found.pre[j]

\* a driver exactly at the boundary is returned while a driver that stopped
\* sharing in the same instant is not
C8_Witness ==
    /\ found.ran
    /\ \E i, j \in DOMAIN found.pre :
          /\ found.at - found.pre[i].last_update = StalenessWindow
          /\ Returned(found.active, found.pre[i].chat_id)
          /\ found.pre[j].active = "no"
          /\ found.pre[j].last_update = found.at
          /\ ~Returned(found.active, found.pre[j].chat_id)

NoFilters ==
    found.nation = NoFilter /\ found.vtype = NoFilter /\ found.gender = NoFilter

\* C9: without filters and without a client location the candidates are the
\* active drivers, in sheet order, cut to the first MAX_DISPLAY_DRIVERS.
C9_AllActiveInOrder ==
    (found.ran /\ NoFilters /\ found.loc = NoLoc) =>
        ChatIds(found.cands) =
            SubSeq(ChatIds(found.active), 1,
                   Min(Len(found.active), MAX_DISPLAY_DRIVERS))

\* position of a chat's row in the sheet the search read
SheetPos(chat) == FirstRow(found.pre, "chat_id", chat)

\* C10: with a client location the candidates are in non-decreasing distance
\* order, those without a distance after all those with one, and candidates
\* at equal distance in sheet order.
C10_SortedByDistance ==
    (found.ran /\ found.loc # NoLoc) =>
        \A k, l \in DOMAIN found.cands :
            k < l =>
                LET a == found.cands[k]
                    b == found.cands[l]
                IN  /\ (a.dist # NoDist /\ b.dist # NoDist) => a.dist <= b.dist
                    /\ ~(a.dist = NoDist /\ b.dist # NoDist)
                    /\ a.dist = b.dist => SheetPos(a.chat_id) < SheetPos(b.chat_id)

\* three candidates: two at the same distance and one without a distance that
\* the sort moved from the front of the sheet to the end
C10_Witness ==
    /\ found.ran
    /\ found.loc # NoLoc
    /\ Len(found.cands) = 3
    /\ found.cands[1].dist # NoDist
    /\ found.cands[1].dist = found.cands[2].dist
    /\ found.cands[3].dist = NoDist
    /\ SheetPos(found.cands[3].chat_id) < SheetPos(found.cands[1].chat_id)

\* ---------------------------------------------------------- price claims
\* C11: a client's acceptance of a counter offer, applied to an order that is
\* CounterProposed, leaves the order Accepted with the driver price equal to
\* the counter price the order held, that is, the one the last counter set.
C11_AcceptedAtCounterPrice ==
    [][\A i \in 1..Len(orders) :
          (orders[i].status = "counter_proposed"
             /\ ClientAcceptTo(i, orders[i].client_id))
          => /\ orders'[i].status = "accepted"
             /\ orders'[i].driver_price = orders[i].counter_price]_vars

\* C12: a driver's numeric reply to the counter prompt, for an order that is
\* Pending, leaves the order CounterProposed with the replied number as its
\* counter price, and the client of the order is sent exactly one offer, whose
\* buttons carry this order id, this driver and this number.
C12_CounterStored ==
    [][\A u \in Responders, txt \in ReplyTexts \cup CounterTexts :
          LET data == appData[u]
              i == RowOf(data.order_id)
              offers == counter_offer_sends(data, u, txt, TRUE)
          IN  (/\ data.kind = "pending_counter"
               /\ IsNumeric(txt)
               /\ i # 0
               /\ orders[i].status = "pending"
               /\ handle_driver_text_for_counter(u, txt, TRUE))
              => /\ orders'[i].status = "counter_proposed"
                 /\ orders'[i].counter_price # Empty
                 /\ FloatOf(orders'[i].counter_price[1]) = FloatOf(txt)
                 /\ Cardinality(offers) = 1
                 /\ \A m \in offers :
                       /\ m.kind = "counter_offer"
                       /\ m.to = orders[i].client_id
                       /\ m.order_id = orders[i].order_id
                       /\ m.peer = u
                       /\ FloatOf(m.price) = FloatOf(txt)]_vars

\* the driver has countered 25 with 30 and the offer was delivered
C12_Witness ==
    /\ undelivered = {}
    /\ appData[2] = NoData
    /\ \E i \in 1..Len(orders) :
          /\ orders[i].status = "counter_proposed"
          /\ orders[i].client_price = WithCurrency("25")
          /\ orders[i].counter_price = WithCurrency("30.0")

\* C13: the designated driver's acceptance, by a button the bot sent them,
\* applied to an order that is Pending, leaves the order Accepted with the
\* driver price equal to the price stored on that order when it was created.
C13_AcceptedAtProposedPrice ==
    [][\A i \in 1..Len(orders) :
          (/\ orders[i].status = "pending"
           /\ \E oid \in OrderIds, p \in PriceTexts \cup AskedPrices,
                 ok \in BOOLEAN :
                 /\ RowOf(oid) = i
                 /\ RequestButton(requested[i], oid, orders[i].client_id, p)
                 /\ driver_accept_callback(requested[i], oid,
                                           orders[i].client_id, p, ok))
          => /\ orders'[i].status = "accepted"
             /\ orders'[i].driver_price = orders[i].client_price]_vars

\* C14: no two rows of the Orders sheet have the same order id.
C14_OrderIdsUnique ==
    \A i, j \in 1..Len(orders) :
        i # j => orders[i].order_id # orders[j].order_id

\* C15: a request for a driver who has a row in the Drivers sheet appends
\* exactly one row, Pending, with the requesting client and the requested
\* price, and leaves every earlier row as it was, whatever orders exist.
C15_OneOrderPerRequest ==
    [][\A c \in Clients, d \in Responders, p \in PriceTexts \cup AskedPrices,
          ok \in BOOLEAN :
          (FirstRow(drivers, "chat_id", d) # 0
             /\ request_driver_callback(c, d, p, ok))
          => /\ Len(orders') = Len(orders) + 1
             /\ \A i \in 1..Len(orders) : orders'[i] = orders[i]
             /\ orders'[Len(orders')].status = "pending"
             /\ orders'[Len(orders')].client_id = c
             /\ orders'[Len(orders')].client_price = WithCurrency(p)]_vars

\* two Pending orders of the same client for the same driver
C15_Witness ==
    /\ Len(orders) = 2
    /\ orders[1].status = "pending"
    /\ orders[2].status = "pending"
    /\ orders[1].client_id = orders[2].client_id
    /\ requested[1] = requested[2]
    /\ FirstRow(drivers, "chat_id", requested[1]) # 0

\* C16: an accept pressed on a request button of an order that is already
\* Accepted or Rejected (a duplicate or late accept) sends the client nothing.
C16_OneAcceptanceNotice ==
    \A u \in Responders, oid \in OrderIds, c \in Clients,
       p \in PriceTexts \cup AskedPrices :
        (/\ RequestButton(u, oid, c, p)
         /\ RowOf(oid) # 0
         /\ orders[RowOf(oid)].status \in Terminal)
        => driver_accept_sends(u, oid, c, p, TRUE) = {}

\* C17: when the message of a handler that wrote an order could not be
\* delivered, the order has the status and the price that handler wrote.
C17_NoRollback ==
    \A m \in undelivered :
        LET i == RowOf(m.order_id)
        IN  i # 0 =>
              /\ m.kind = "accepted" =>
                    /\ orders[i].status = "accepted"
                    /\ orders[i].driver_price = WithCurrency(m.price)
              /\ m.kind = "counter_offer" =>
                    /\ orders[i].status = "counter_proposed"
                    /\ orders[i].counter_price = WithCurrency(m.price)
              /\ m.kind = "counter_accepted" =>
                    /\ orders[i].status = "accepted"
                    /\ orders[i].driver_price = WithCurrency(m.price)
              /\ m.kind = "counter_rejected" => orders[i].status = "rejected"

\* the acceptance notice of an existing order was not delivered
C17_Witness ==
    \E m \in undelivered :
        /\ m.kind = "accepted"
        /\ RowOf(m.order_id) # 0
        /\ orders[RowOf(m.order_id)].status = "accepted"


\* C18: registering a chat that already has a driver row appends nothing,
\* returns the id of that row, stores the supplied attributes, sets the row
\* active with the time of the call and leaves the other rows alone; so no
\* two rows ever belong to the same chat.
OneRecordPerChat ==
    \A i, j \in 1..Len(drivers) :
        i # j => drivers[i].chat_id # drivers[j].chat_id

ReRegistrationMerges ==
    \A u \in Chats, info \in ReInfos :
        LET i == FirstRow(drivers, "chat_id", u)
        IN  (i # 0 /\ driver_gender(u, info)) =>
              /\ Len(drivers') = Len(drivers)
              /\ registered_driver_id(drivers, u, now) = drivers[i].driver_id
              /\ drivers'[i].driver_id = drivers[i].driver_id
              /\ drivers'[i].chat_id = u
              /\ drivers'[i].nationality = info.nationality
              /\ drivers'[i].vehicle_type = info.vehicle_type
              /\ drivers'[i].gender = info.gender
              /\ drivers'[i].active = "yes"
              /\ drivers'[i].last_update = now
              /\ \A j \in 1..Len(drivers) : j # i => drivers'[j] = drivers[j]

C18_ReRegistrationMerges == []OneRecordPerChat /\ [][ReRegistrationMerges]_vars

\* a row created at second 0 that is active at second 1 without ever having
\* had a position: only a second registration writes that
C18_Witness ==
    \E i \in 1..Len(drivers) :
        /\ drivers[i].driver_id = new_driver_id(0)
        /\ drivers[i].last_update = 1
        /\ drivers[i].active = "yes"
        /\ drivers[i].latitude = Empty
        /\ drivers[i].nationality = "Egyptian"

\* C19: no two driver rows have the same driver id, whatever the chats that
\* registered and however close in time, and the driver id of a row never
\* changes.
DriverIdsUnique ==
    \A i, j \in 1..Len(drivers) :
        i # j => drivers[i].driver_id # drivers[j].driver_id

DriverIdsStable ==
    \A i \in 1..Len(drivers) :
        /\ i <= Len(drivers')
        /\ drivers'[i].driver_id = drivers[i].driver_id

C19_DriverIdsUnique == []DriverIdsUnique /\ [][DriverIdsStable]_vars

\* C20: the latitude and longitude of a driver row change only in a step
\* that is a location report of the chat of that row, sent while that chat
\* has the driver role.
PositionOf(r) == <<r.latitude, r.longitude>>

PositionByOwnReport ==
    \A i \in 1..Len(drivers) :
        (i <= Len(drivers') /\ PositionOf(drivers'[i]) # PositionOf(drivers[i]))
            => /\ get_user_role(users, drivers[i].chat_id) = "driver"
               /\ \E pt \in Points :
                     /\ driver_live_location(drivers[i].chat_id, pt)
                     /\ PositionOf(drivers'[i]) = <<Num(pt[1]), Num(pt[2])>>

C20_PositionByOwnReport == [][PositionByOwnReport]_vars

\* both drivers reported, at different places, and an order was accepted
C20_Witness ==
    /\ Len(drivers) = 2
    /\ PositionOf(drivers[1]) = <<Num(PA[1]), Num(PA[2])>>
    /\ PositionOf(drivers[2]) = <<Num(PC[1]), Num(PC[2])>>
    /\ \E k \in 1..Len(orders) : orders[k].status = "accepted"

\* C21: a driver's stop request stores the driver Inactive; a row stored
\* Inactive is in no result of a query, however recent its last update; the
\* flag goes back to Active only by a location report or a registration of
\* the chat of the row; and a driver's location report stores it Active.
RowOfChat(chat) == FirstRow(drivers, "chat_id", chat)

IsDriverWithRow(u) ==
    get_user_role(users, u) = "driver" /\ RowOfChat(u) # 0

InactiveNotReturned ==
    found.ran =>
        \A i \in DOMAIN found.pre :
            found.pre[i].active = "no" =>
                /\ ~Returned(found.active, found.pre[i].chat_id)
                /\ ~Returned(found.cands, found.pre[i].chat_id)

StopAndReport ==
    /\ \A u \in Chats :
          (IsDriverWithRow(u) /\ stop_tracking(u)) =>
              drivers'[RowOfChat(u)].active = "no"
    /\ \A u \in Chats, pt \in Points :
          (IsDriverWithRow(u) /\ driver_live_location(u, pt)) =>
              drivers'[RowOfChat(u)].active = "yes"
    /\ \A i \in 1..Len(drivers) :
          (drivers[i].active = "no" /\ drivers'[i].active # "no") =>
              \/ \E pt \in Points : driver_live_location(drivers[i].chat_id, pt)
              \/ \E info \in Infos : driver_gender(drivers[i].chat_id, info)

Lower(txt) ==
    CASE txt \in {"Saudi", "saudi"} -> "saudi"
      [] txt = " SAUDI " -> " saudi "
      [] txt \in {"Car", "car", "CAR"} -> "car"
      [] OTHER -> txt

\* the text in lower case without its surrounding whitespace
TrimLower(txt) ==
    CASE txt \in {"Saudi", "saudi", " SAUDI "} -> "saudi"
      [] txt \in {"Car", "car", "CAR"} -> "car"
      [] OTHER -> txt

\* some filter of the search is present and differs from the attribute of
\* the row under the comparison `Same`
FilterDiffers(r, Same(_, _)) ==
    \/ found.nation # NoFilter /\ ~Same(found.nation, r.nationality)
    \/ found.vtype # NoFilter /\ ~Same(found.vtype, r.vehicle_type)
    \/ found.gender # NoFilter /\ ~Same(found.gender, r.gender)

SameIgnoringCase(a, b) == Lower(a) = Lower(b)
SameTrimmedIgnoringCase(a, b) == TrimLower(a) = TrimLower(b)

\* Of the active drivers with numeric coordinates (rows without them are
\* dropped before any distance is computed, whatever the filters) the
\* candidates are exactly those no filter removed.
RemovedByFilterIff(Same(_, _)) ==
    found.ran =>
        \A k \in DOMAIN found.active :
            LET r == found.active[k]
            IN  /\ FilterDiffers(r, Same) => ~Returned(found.cands, r.chat_id)
                /\ (~FilterDiffers(r, Same) /\ IsFloat(r.latitude)
                        /\ IsFloat(r.longitude))
                     => Returned(found.cands, r.chat_id)

\* C22: the filters of a search remove an active driver if and only if some
\* present filter differs from the driver's attribute, the two compared as
\* they are but for the case of the letters; an absent filter removes nobody.
C22_RemovedIffDiffersExact == RemovedByFilterIff(SameIgnoringCase)

\* C22 as amended: the two are compared without their surrounding whitespace
\* and but for the case of the letters.
C22_RemovedIffDiffersTrimmed == RemovedByFilterIff(SameTrimmedIgnoringCase)

\* a search with a nationality filter that kept a driver whose nationality
\* is stored in another case and removed a driver of another nationality
C22_Witness ==
    /\ found.ran
    /\ found.nation = "Saudi"
    /\ \E k, l \in DOMAIN found.active :
          /\ found.active[k].nationality = "saudi"
          /\ Returned(found.cands, found.active[k].chat_id)
          /\ found.active[l].nationality = "Egyptian"
          /\ IsFloat(found.active[l].latitude)
          /\ ~Returned(found.cands, found.active[l].chat_id)

\* C23: a user has at most one row in the Users sheet, with one of the two
\* roles; a role choice that names the role the user has writes nothing, and
\* one that names another role leaves that role stored, in the same row, all
\* other rows as they were.
RowOfUser(u) == FirstRow(users, "user_id", u)

OneRolePerUser ==
    /\ \A i, j \in 1..Len(users) :
          i # j => users[i].user_id # users[j].user_id
    /\ \A i \in 1..Len(users) : users[i].role \in {"client", "driver"}

RoleLastWriteWins ==
    \A u \in Chats, role \in {"client", "driver"} :
        role_choice(u, role) =>
            /\ get_user_role(users, u) = role => users' = users
            /\ get_user_role(users', u) = role
            /\ Len(users') = IF RowOfUser(u) = 0 THEN Len(users) + 1
                             ELSE Len(users)
            /\ \A k \in 1..Len(users) :
                  users[k].user_id # u => users'[k] = users[k]

C23_OneRoleLastWriteWins == []OneRolePerUser /\ [][RoleLastWriteWins]_vars

\* a chat that registered as a driver, which takes the driver role, and is
\* stored as a client now
C23_Witness ==
    \E i \in 1..Len(drivers), j \in 1..Len(users) :
        /\ drivers[i].chat_id = users[j].user_id
        /\ users[j].role = "client"
        /\ Len(users) > 1

Quiescent == running = NoTasks

\* C24: a staleness demotion and a location report for the same driver take
\* effect one after the other: once both handlers have returned, a driver
\* stored Inactive has a last update that was stale when a search read it,
\* so no report's refresh is followed by a demotion decided before it.
C24_NoLostReport ==
    Quiescent =>
        \A i \in 1..Len(drivers) :
            drivers[i].active = "no" =>
                drivers[i].last_update + StalenessWindow < now

\* the report of a driver a search has demoted: the time is refreshed and
\* the flag is the next cell to be written
C24_Witness ==
    /\ running["report"].op = "report"
    /\ running["report"].cell = 14
    /\ drivers[running["report"].row].active = "no"
    /\ drivers[running["report"].row].last_update = now

\* a row as the program writes it: both coordinates of one report or none,
\* and Inactive only with a last update that is stale at time t
WholeRecord(r, t) ==
    /\ PositionOf(r) \in
          {<<Empty, Empty>>} \cup {<<Num(pt[1]), Num(pt[2])>> : pt \in Points}
    /\ r.active = "no" => r.last_update + StalenessWindow < t

\* C25: the rows a search reads are whole records: no row has the latitude
\* of one report with the longitude of another, or a refreshed time with the
\* flag the report has not written yet.
C25_NoPartialRead ==
    /\ running["query"].op = "query" =>
          \A k \in DOMAIN running["query"].recs :
              WholeRecord(running["query"].recs[k], running["query"].at)
    /\ found.ran =>
          \A k \in DOMAIN found.pre : WholeRecord(found.pre[k], found.at)

\* a search that read a driver at the place of a finished report, demoted
\* before that report
C25_Witness ==
    /\ running["query"].op = "query"
    /\ \E k \in DOMAIN running["query"].recs :
          LET r == running["query"].recs[k]
          IN  /\ PositionOf(r) = <<Num(PC[1]), Num(PC[2])>>
              /\ r.active = "yes"
              /\ r.last_update = running["query"].at
              /\ r.last_update > StalenessWindow

HasPendingCounter(u) == appData[u].kind = "pending_counter"

\* C26: a press of the counter button leaves a pending counter for the chat
\* that pressed it, naming the order of the button; and whatever text that
\* chat sends next, no pending counter is left for it after the reply.
CounterButtonCreatesPending ==
    \A u \in Chats, oid \in OrderIds, c \in Clients,
       p \in PriceTexts \cup AskedPrices :
        driver_counter_callback(u, oid, c, p) =>
            /\ appData'[u].kind = "pending_counter"
            /\ appData'[u].order_id = oid
            /\ \A v \in Chats \ {u} : appData'[v] = appData[v]

AnyReplyClearsPending ==
    \A u \in Chats, txt \in CounterTexts :
        HasPendingCounter(u) =>
            pending_after_text(appData[u], txt).kind # "pending_counter"

C26_PendingCounterConsumed ==
    []AnyReplyClearsPending /\ [][CounterButtonCreatesPending]_vars

\* the replies of the runs that are not numbers
NonNumericTexts == {"abc"}

\* C27: a reply that is not a number, from a driver with a pending counter,
\* changes no row of the Orders sheet (status and counter price included)
\* and sends the client no counter offer.
NonNumericReplySendsNothing ==
    \A u \in Chats, txt \in NonNumericTexts :
        HasPendingCounter(u) =>
            counter_offer_sends(appData[u], u, txt, TRUE) = {}

NonNumericReplyWritesNothing ==
    \A u \in Chats, txt \in NonNumericTexts, ok \in BOOLEAN :
        (HasPendingCounter(u) /\ handle_driver_text_for_counter(u, txt, ok))
            => orders' = orders

C27_NonNumericReplyIgnored ==
    []NonNumericReplySendsNothing /\ [][NonNumericReplyWritesNothing]_vars

\* the driver is asked for a price for a pending order and has not given a
\* number: the state before and after such a reply
C27_Witness ==
    /\ HasPendingCounter(2)
    /\ RowOf(appData[2].order_id) # 0
    /\ orders[RowOf(appData[2].order_id)].status = "pending"
    /\ orders[RowOf(appData[2].order_id)].counter_price = Empty

\* C28: every order has a number as its client price: a price that is not
\* a number gets no request button and no order.
C28_OrderPriceNumeric ==
    \A i \in 1..Len(orders) :
        /\ orders[i].client_price # Empty
        /\ IsNumeric(orders[i].client_price[1])

\* the request message of row i carries these buttons for the driver u
ButtonOfRow(i, u, oid, c, p) ==
    /\ requested[i] = u
    /\ orders[i].order_id = oid
    /\ orders[i].client_id = c
    /\ orders[i].client_price = WithCurrency(p)

\* C29: a response to an order, given by a button of the request message of
\* that order, changes no other row of the Orders sheet and no row of the
\* Drivers sheet, whether or not it changes the order itself.
C29_ResponseTouchesOnlyItsOrder ==
    [][\A i \in 1..Len(orders), p \in AskedPrices, ok \in BOOLEAN :
          (/\ ButtonOfRow(i, 2, orders[i].order_id, 1, p)
           /\ driver_accept_callback(2, orders[i].order_id, 1, p, ok))
          => /\ \A j \in 1..Len(orders) : j # i => orders'[j] = orders[j]
             /\ drivers' = drivers]_vars

\* C30: no event other than a driver's or the client's response to an order
\* changes that order's status: the clock, role choices, registrations,
\* location reports, candidate queries, stopping and new orders leave every
\* status as it was, so an order nobody answers stays pending.
StatusChangeIsResponse ==
    \A i \in 1..Len(orders) :
        orders'[i].status # orders[i].status
        => \E u \in Chats :
              DriverResponseTo(i, u) \/ ClientAcceptTo(i, u) \/ ClientRejectTo(i, u)

C30_StatusOnlyByResponse == [][StatusChangeIsResponse]_vars

\* An order still pending after the clock moved, the driver reported, the
\* client queried, a role was chosen and a later order was added.
C30_Witness ==
    /\ Len(orders) = 2
    /\ orders[1].status = "pending"
    /\ orders[2].status # "pending"
    /\ now > 0
    /\ found.ran
    /\ \E k \in 1..Len(drivers) : drivers[k].latitude # Empty
    /\ \E k \in 1..Len(users) : users[k].user_id = 4 /\ users[k].role = "driver"

\* C31: whenever an order's stored driver_id is not empty, it is the
\* driver_id of a row of the Drivers sheet, the id register_driver generated
\* and returned for that driver.
C31_OrderDriverIdResolves ==
    \A i \in 1..Len(orders) :
        orders[i].driver_id # Empty
        => \E k \in 1..Len(drivers) : drivers[k].driver_id = orders[i].driver_id

\* C32: while a driver has a pending counter request for order O, no step
\* other than that driver's own text reply removes or replaces it: not a new
\* request addressed to the driver, not a counter button pressed on another
\* order, not another user's action.
PendingCounterKept ==
    \A u \in Chats :
        appData[u].kind = "pending_counter"
        => \/ appData'[u] = appData[u]
           \/ \E txt \in ReplyTexts \cup CounterTexts, ok \in BOOLEAN :
                 handle_driver_text_for_counter(u, txt, ok)

C32_PendingCounterSurvives == [][PendingCounterKept]_vars

\* C33: a text that is no command, sent by a driver who has a pending counter
\* request, is handled by handle_driver_text_for_counter, whatever
\* conversation state the driver's chat is in.
C33_CounterReplyReachesHandler ==
    \A u \in Chats :
        appData[u].kind = "pending_counter"
        => \A st \in ConvStates :
              dispatch("text", st) = "handle_driver_text_for_counter"

\* C34: an accept callback sends the client the acceptance notice for an
\* order id only if, after the handler's update, the Orders sheet has a row
\* with that id whose status is accepted; when update_order_in_sheet finds no
\* such row, no acceptance notice is sent.
AcceptNoticeSent(u, oid, c, p) ==
    \E m \in driver_accept_sends(u, oid, c, p, TRUE) :
        m.kind = "accepted" /\ m.to = c /\ m.order_id = oid

AcceptStored(u, oid, p) ==
    LET after == update_order_in_sheet(orders, oid,
                    [status |-> "accepted",
                     driver_id |-> DriverIdOfChat(u),
                     driver_name |-> FullName(u),
                     driver_price |-> WithCurrency(p)])
    IN  \E i \in 1..Len(after) :
            after[i].order_id = oid /\ after[i].status = "accepted"

C34_NoticeOnlyIfStored ==
    \A u \in Responders, oid \in OrderIds, c \in Clients, p \in PriceTexts :
        AcceptNoticeSent(u, oid, c, p) => AcceptStored(u, oid, p)

\* C35: a step that runs the active-driver query writes nothing but the
\* active flag of rows that were stored active and are stale, which it sets
\* to "no": every other cell of every driver row, the number of rows, the
\* Users sheet and the Orders sheet are as before, and a row that was
\* inactive or not stale keeps its flag.
QueryWritesOnlyStaleFlags ==
    found'.ran
    => /\ users' = users
       /\ orders' = orders
       /\ Len(drivers') = Len(drivers)
       /\ \A i \in 1..Len(drivers) :
             /\ [drivers'[i] EXCEPT !.active = drivers[i].active] = drivers[i]
             /\ drivers'[i].active # drivers[i].active
                => /\ drivers[i].active = "yes"
                   /\ now - drivers[i].last_update > INACTIVE_THRESHOLD * 60
                   /\ drivers'[i].active = "no"

C35_QueryFrame == [][QueryWritesOnlyStaleFlags]_vars

\* A query that demoted one stale driver and left a fresh one active.
C35_Witness ==
    /\ found.ran
    /\ \E i \in 1..Len(drivers) :
          found.pre[i].active = "yes" /\ drivers[i].active = "no"
    /\ \E j \in 1..Len(drivers) :
          found.pre[j].active = "yes" /\ drivers[j].active = "yes"

\* C36: right after an active-driver query, the same query asked again at the
\* same time returns the same drivers and the same candidates, and finds no
\* row to write: no row is both flagged active and stale.
RowsToMark(recs, t) ==
    {i \in 1..Len(recs) :
        recs[i].active \in {"yes", "true"}
        /\ t - recs[i].last_update > INACTIVE_THRESHOLD * 60}

C36_QueryIdempotent ==
    found.ran
    => LET again == Query(drivers, now, found.loc, found.nation, found.vtype,
                          found.gender, found.price)
       IN  /\ again.active = found.active
           /\ again.cands = found.cands
           /\ RowsToMark(drivers, now) = {}
           /\ mark_inactive(drivers, now) = drivers

\* The first query had a stale row to mark and returned a driver.
C36_Witness ==
    /\ found.ran
    /\ RowsToMark(found.pre, found.at) # {}
    /\ Len(found.active) > 0

\* C37: once a row is in the Orders sheet it stays there, and no step changes
\* its client_id, client_price, pickup_loc or timestamp: the only cells of
\* an existing row that a step writes are status, driver_id, driver_name,
\* driver_price and counter_price.
ResponseColumns ==
    {"status", "driver_id", "driver_name", "driver_price", "counter_price"}

CreationFieldsKept ==
    /\ Len(orders') >= Len(orders)
    /\ \A i \in 1..Len(orders) :
          /\ orders'[i].client_id = orders[i].client_id
          /\ orders'[i].client_price = orders[i].client_price
          /\ orders'[i].pickup_loc = orders[i].pickup_loc
          /\ orders'[i].timestamp = orders[i].timestamp
          /\ \A f \in DOMAIN orders[i] :
                orders'[i][f] # orders[i][f] => f \in ResponseColumns

C37_CreationFieldsFrozen == [][CreationFieldsKept]_vars

\* An order requested at one place and one second, accepted at the driver's
\* counter price after the client moved on and the clock advanced.
C37_Witness ==
    \E i \in 1..Len(orders) :
        /\ orders[i].pickup_loc = PB
        /\ userData[1].client_search_loc = PA
        /\ orders[i].status = "accepted"
        /\ orders[i].counter_price # Empty
        /\ orders[i].driver_price # orders[i].client_price
        /\ orders[i].timestamp < now

=============================================================================
